---- MODULE Spec2Model ----
(***************************************************************************)
(* State-machine model of the Course page (src/src/pages/Course.tsx).      *)
(*                                                                         *)
(* The variables are the page's useState slots, the queries awaiting the   *)
(* remote service, and two observation variables: the notifications the    *)
(* most recent handler passed to toast(), and the name of that handler.    *)
(* JavaScript strings on which the code computes (trim, toLowerCase, ===,  *)
(* truthiness) are sequences of one-character strings; strings the code    *)
(* only passes along (toast texts, section titles) are TLA+ strings.       *)
(***************************************************************************)
EXTENDS Integers, Sequences, FiniteSets, TLC

VARIABLES searchTopic, showTypeDialog, showDifficultyDialog, selectedType,
          selectedDifficulty, courses, selectedVideo, showQuiz,
          showPythonModal, sections, pending, toasts, lastOp

vars == <<searchTopic, showTypeDialog, showDifficultyDialog, selectedType,
          selectedDifficulty, courses, selectedVideo, showQuiz,
          showPythonModal, sections, pending, toasts, lastOp>>

(* ------------------------------ bounds -------------------------------- *)

\* Queries that may be awaiting the remote service at the same time.
MaxInFlight == 1

\* Rows the remote service returns for one query.
MaxRows == 1

\* Queries awaited at the same time where their answers may overtake one
\* another.
RaceInFlight == 2

(* ------------------------- JavaScript strings ------------------------- *)

\* null, and a value that is not null: the slots typed "T | null".
null == << >>

Some(v) == <<v>>

EmptyString == << >>

UpperLetters == <<"A","B","C","D","E","F","G","H","I","J","K","L","M",
                  "N","O","P","Q","R","S","T","U","V","W","X","Y","Z">>

LowerLetters == <<"a","b","c","d","e","f","g","h","i","j","k","l","m",
                  "n","o","p","q","r","s","t","u","v","w","x","y","z">>

\* String.prototype.toLowerCase on one character.
LowerChar(c) ==
    IF \E i \in 1..Len(UpperLetters) : UpperLetters[i] = c
    THEN LowerLetters[CHOOSE i \in 1..Len(UpperLetters) : UpperLetters[i] = c]
    ELSE c

\* String.prototype.toLowerCase.
ToLowerCase(s) == [i \in 1..Len(s) |-> LowerChar(s[i])]

\* The white space String.prototype.trim removes (those that occur here).
IsWhiteSpace(c) == c \in {" ", "\t", "\n"}

RECURSIVE TrimStart(_)
TrimStart(s) ==
    IF s # << >> /\ IsWhiteSpace(Head(s)) THEN TrimStart(Tail(s)) ELSE s

RECURSIVE TrimEnd(_)
TrimEnd(s) ==
    IF s # << >> /\ IsWhiteSpace(s[Len(s)])
    THEN TrimEnd(SubSeq(s, 1, Len(s) - 1))
    ELSE s

\* String.prototype.trim.
Trim(s) == TrimEnd(TrimStart(s))

\* JavaScript truthiness of a string: the empty string is falsy.
Truthy(s) == s # EmptyString

(* ------------------------------ inputs -------------------------------- *)

\* The literal the diversion compares the lower-cased topic with (line 94).
PythonTopic == <<"p","y","t","h","o","n">>

\* The literal the diversion compares the level with (line 94).
BeginnerLevel == <<"B","e","g","i","n","n","e","r">>

\* The level buttons of the difficulty dialog (line 206).
Levels == { BeginnerLevel,
            <<"I","n","t","e","r","m","e","d","i","a","t","e">>,
            <<"H","a","r","d">>,
            <<"E","x","p","e","r","t">> }

\* Texts typed into the search input: empty, white space only, the diverted
\* topic in two casings, another topic, and the diverted topic after a blank.
MixedCasePython == <<"P","y","T","H","o","n">>

OtherTopic == <<"A","I">>

Topics == { EmptyString,
            <<" ", "\t">>,
            MixedCasePython,
            PythonTopic,
            OtherTopic,
            <<" ","p","y","t","h","o","n">> }

\* The inputs of the whole-page specification.
PageTopics == { MixedCasePython, OtherTopic }

HardLevel == <<"H","a","r","d">>

PageLevels == { BeginnerLevel, HardLevel }

(* ------------------------- the fixed catalog -------------------------- *)

pythonSections ==
    << [id |-> 1, title |-> "Introduction to Python",
        description |-> "Learn the basics of Python programming language and its ecosystem.",
        isCompleted |-> FALSE],
       [id |-> 2, title |-> "Basics of Python",
        description |-> "Master fundamental concepts like variables, data types, and control structures.",
        isCompleted |-> FALSE],
       [id |-> 3, title |-> "OOP Concepts in Python",
        description |-> "Understand object-oriented programming principles in Python.",
        isCompleted |-> FALSE],
       [id |-> 4, title |-> "Advanced Concepts in Python",
        description |-> "Explore advanced topics like decorators, generators, and metaclasses.",
        isCompleted |-> FALSE] >>

(* --------------------------- notifications ---------------------------- *)

EmptyTopicToast ==
    [title |-> "Error", description |-> "Please enter a topic to search",
     variant |-> "destructive"]

NoCoursesToast ==
    [title |-> "No courses found", description |-> "Try different search criteria",
     variant |-> "destructive"]

FetchFailedToast ==
    [title |-> "Error", description |-> "Failed to fetch courses",
     variant |-> "destructive"]

QuizCompletedToast ==
    [title |-> "Quiz Completed",
     description |-> "You've completed this section's quiz!",
     variant |-> "default"]

(* ------------------------- the remote service ------------------------- *)

\* The request filtering on the level as displayed, not lower-cased.
QueryCall_RawLevel(isFree, difficulty) ==
    [is_free |-> isFree, difficulty_level |-> difficulty]

\* The request built at lines 103-108: the two equality filters.
QueryCall(isFree, difficulty) ==
    [is_free |-> isFree, difficulty_level |-> ToLowerCase(difficulty)]

\* A course row. The page reads its id (the card's key) and hands the row to
\* its card, which reports the video; the other columns are only displayed.
CourseRow(i) == [id |-> i, video_id |-> <<"v", i>>]

\* n rows, newest first (order by created_at descending).
Rows(n) == [k \in 1..n |-> CourseRow(n + 1 - k)]

\* What an awaited query can produce: {data, error} with rows, with an empty
\* list, with no data, with an error object, or a rejected promise.
Responses ==
    { [data |-> Some(Rows(n)), error |-> null, rejected |-> FALSE] : n \in 0..MaxRows }
    \cup { [data |-> null, error |-> null, rejected |-> FALSE],
           [data |-> null, error |-> Some("error"), rejected |-> FALSE],
           [data |-> null, error |-> null, rejected |-> TRUE] }

\* data || []
DataOrEmpty(data) == IF data = null THEN << >> ELSE data[1]

\* !data: an empty list counts as courses found.
NoLength_NullOnly(data) == data = null

\* !data?.length
NoLength(data) == data = null \/ Len(data[1]) = 0

RemoveAt(s, i) == [k \in 1..(Len(s) - 1) |-> IF k < i THEN s[k] ELSE s[k + 1]]

\* The label of a step: the handler that ran and the arguments it ran with.
\* handleVideoComplete takes none: its label carries the videoId the video
\* player held (line 262) when it reported completion. The continuation of
\* handleDifficultySelection is labelled with the place of its query among those
\* awaited, the outcome, and the query.
Call(op, args) == [op |-> op, args |-> args]

(* ------------------------------- Init --------------------------------- *)

Init ==
    /\ searchTopic = EmptyString
    /\ showTypeDialog = FALSE
    /\ showDifficultyDialog = FALSE
    /\ selectedType = null
    /\ selectedDifficulty = EmptyString
    /\ courses = << >>
    /\ selectedVideo = EmptyString
    /\ showQuiz = FALSE
    /\ showPythonModal = FALSE
    /\ sections = pythonSections
    /\ pending = << >>
    /\ toasts = << >>
    /\ lastOp = Call("init", << >>)

(* ------------------------------ handlers ------------------------------ *)

\* The search input's onChange.
setSearchTopic(value) ==
    /\ searchTopic' = value
    /\ toasts' = << >>
    /\ lastOp' = Call("setSearchTopic", <<value>>)
    /\ UNCHANGED <<showTypeDialog, showDifficultyDialog, selectedType,
                   selectedDifficulty, courses, selectedVideo, showQuiz,
                   showPythonModal, sections, pending>>

\* handleSearch without the test of the topic.
handleSearch_NoValidation ==
    /\ showTypeDialog' = TRUE
    /\ toasts' = << >>
    /\ lastOp' = Call("handleSearch", << >>)
    /\ UNCHANGED <<searchTopic, showDifficultyDialog, selectedType,
                   selectedDifficulty, courses, selectedVideo, showQuiz,
                   showPythonModal, sections, pending>>

\* handleSearch testing the topic as typed, not trimmed.
handleSearch_NoTrim ==
    /\ IF ~Truthy(searchTopic)
       THEN /\ toasts' = <<EmptyTopicToast>>
            /\ UNCHANGED showTypeDialog
       ELSE /\ showTypeDialog' = TRUE
            /\ toasts' = << >>
    /\ lastOp' = Call("handleSearch", << >>)
    /\ UNCHANGED <<searchTopic, showDifficultyDialog, selectedType,
                   selectedDifficulty, courses, selectedVideo, showQuiz,
                   showPythonModal, sections, pending>>

handleSearch ==
    /\ IF ~Truthy(Trim(searchTopic))
       THEN /\ toasts' = <<EmptyTopicToast>>
            /\ UNCHANGED showTypeDialog
       ELSE /\ showTypeDialog' = TRUE
            /\ toasts' = << >>
    /\ lastOp' = Call("handleSearch", << >>)
    /\ UNCHANGED <<searchTopic, showDifficultyDialog, selectedType,
                   selectedDifficulty, courses, selectedVideo, showQuiz,
                   showPythonModal, sections, pending>>

\* handleTypeSelection without its setSelectedType(isFree).
handleTypeSelection_ForgetsTier(isFree) ==
    /\ showTypeDialog' = FALSE
    /\ showDifficultyDialog' = TRUE
    /\ toasts' = << >>
    /\ lastOp' = Call("handleTypeSelection", <<isFree>>)
    /\ UNCHANGED <<searchTopic, selectedType, selectedDifficulty, courses,
                   selectedVideo, showQuiz, showPythonModal, sections, pending>>

\* handleTypeSelection without its setShowTypeDialog(false).
handleTypeSelection_KeepsTypeDialog(isFree) ==
    /\ selectedType' = Some(isFree)
    /\ showDifficultyDialog' = TRUE
    /\ toasts' = << >>
    /\ lastOp' = Call("handleTypeSelection", <<isFree>>)
    /\ UNCHANGED <<searchTopic, showTypeDialog, selectedDifficulty, courses,
                   selectedVideo, showQuiz, showPythonModal, sections, pending>>

handleTypeSelection(isFree) ==
    /\ selectedType' = Some(isFree)
    /\ showTypeDialog' = FALSE
    /\ showDifficultyDialog' = TRUE
    /\ toasts' = << >>
    /\ lastOp' = Call("handleTypeSelection", <<isFree>>)
    /\ UNCHANGED <<searchTopic, selectedDifficulty, courses, selectedVideo,
                   showQuiz, showPythonModal, sections, pending>>

\* The diversion comparing the topic as typed, not lower-cased.
IsDiversion_CaseSensitive(topic, difficulty) ==
    topic = PythonTopic /\ difficulty = BeginnerLevel

\* The condition of the diversion (line 94).
IsDiversion(topic, difficulty) ==
    ToLowerCase(topic) = PythonTopic /\ difficulty = BeginnerLevel

\* handleDifficultySelection recording the level before it tests the
\* diversion.
handleDifficultySelection_RecordsFirst(difficulty) ==
    /\ selectedDifficulty' = difficulty
    /\ IF IsDiversion(searchTopic, difficulty)
       THEN /\ showPythonModal' = TRUE
            /\ UNCHANGED <<showDifficultyDialog, pending>>
       ELSE /\ showDifficultyDialog' = FALSE
            /\ pending' = Append(pending, QueryCall(selectedType, difficulty))
            /\ UNCHANGED showPythonModal
    /\ toasts' = << >>
    /\ lastOp' = Call("handleDifficultySelection", <<difficulty>>)
    /\ UNCHANGED <<searchTopic, showTypeDialog, selectedType, courses,
                   selectedVideo, showQuiz, sections>>

\* handleDifficultySelection up to its await: the diversion, or the request.
handleDifficultySelection(difficulty) ==
    /\ IF IsDiversion(searchTopic, difficulty)
       THEN /\ showPythonModal' = TRUE
            /\ UNCHANGED <<selectedDifficulty, showDifficultyDialog, pending>>
       ELSE /\ selectedDifficulty' = difficulty
            /\ showDifficultyDialog' = FALSE
            /\ pending' = Append(pending, QueryCall(selectedType, difficulty))
            /\ UNCHANGED showPythonModal
    /\ toasts' = << >>
    /\ lastOp' = Call("handleDifficultySelection", <<difficulty>>)
    /\ UNCHANGED <<searchTopic, showTypeDialog, selectedType, courses,
                   selectedVideo, showQuiz, sections>>

\* The continuation emptying the results list when the query fails.
resumeDifficultySelection_ClearsOnError(i, r) ==
    /\ IF r.rejected \/ r.error # null
       THEN /\ toasts' = <<FetchFailedToast>>
            /\ courses' = << >>
       ELSE /\ courses' = DataOrEmpty(r.data)
            /\ toasts' = IF NoLength(r.data) THEN <<NoCoursesToast>> ELSE << >>
    /\ pending' = RemoveAt(pending, i)
    /\ lastOp' = Call("resumeDifficultySelection", <<i, r, pending[i]>>)
    /\ UNCHANGED <<searchTopic, showTypeDialog, showDifficultyDialog,
                   selectedType, selectedDifficulty, selectedVideo, showQuiz,
                   showPythonModal, sections>>

\* The continuation adding the answer to the courses already listed.
resumeDifficultySelection_Merges(i, r) ==
    /\ IF r.rejected \/ r.error # null
       THEN /\ toasts' = <<FetchFailedToast>>
            /\ UNCHANGED courses
       ELSE /\ courses' = courses \o DataOrEmpty(r.data)
            /\ toasts' = IF NoLength(r.data) THEN <<NoCoursesToast>> ELSE << >>
    /\ pending' = RemoveAt(pending, i)
    /\ lastOp' = Call("resumeDifficultySelection", <<i, r, pending[i]>>)
    /\ UNCHANGED <<searchTopic, showTypeDialog, showDifficultyDialog,
                   selectedType, selectedDifficulty, selectedVideo, showQuiz,
                   showPythonModal, sections>>

\* The continuation with a guard: an answer to a query that is not for the
\* level chosen last is ignored.
resumeDifficultySelection_IgnoresStale(i, r) ==
    /\ IF pending[i].difficulty_level # ToLowerCase(selectedDifficulty)
       THEN UNCHANGED <<courses, toasts>>
       ELSE IF r.rejected \/ r.error # null
       THEN /\ toasts' = <<FetchFailedToast>>
            /\ UNCHANGED courses
       ELSE /\ courses' = DataOrEmpty(r.data)
            /\ toasts' = IF NoLength(r.data) THEN <<NoCoursesToast>> ELSE << >>
    /\ pending' = RemoveAt(pending, i)
    /\ lastOp' = Call("resumeDifficultySelection", <<i, r, pending[i]>>)
    /\ UNCHANGED <<searchTopic, showTypeDialog, showDifficultyDialog,
                   selectedType, selectedDifficulty, selectedVideo, showQuiz,
                   showPythonModal, sections>>

\* handleDifficultySelection after its await, for the i-th query awaited and
\* the outcome r of that query (lines 110-127).
resumeDifficultySelection(i, r) ==
    /\ IF r.rejected \/ r.error # null
       THEN /\ toasts' = <<FetchFailedToast>>
            /\ UNCHANGED courses
       ELSE /\ courses' = DataOrEmpty(r.data)
            /\ toasts' = IF NoLength(r.data) THEN <<NoCoursesToast>> ELSE << >>
    /\ pending' = RemoveAt(pending, i)
    /\ lastOp' = Call("resumeDifficultySelection", <<i, r, pending[i]>>)
    /\ UNCHANGED <<searchTopic, showTypeDialog, showDifficultyDialog,
                   selectedType, selectedDifficulty, selectedVideo, showQuiz,
                   showPythonModal, sections>>

\* The updater marking the clicked section alone as completed.
CompleteIn_ResetsOthers(prevSections, sectionId) ==
    [k \in 1..Len(prevSections) |->
        [prevSections[k] EXCEPT !.isCompleted = (prevSections[k].id = sectionId)]]

\* The updater moving the completed section to the end of the list.
CompleteIn_MovesToEnd(prevSections, sectionId) ==
    SelectSeq(prevSections, LAMBDA x : x.id # sectionId)
    \o [k \in 1..Len(SelectSeq(prevSections, LAMBDA x : x.id = sectionId)) |->
          [SelectSeq(prevSections, LAMBDA x : x.id = sectionId)[k]
              EXCEPT !.isCompleted = TRUE]]

\* The updater toggling the flag instead of setting it.
CompleteIn_Toggle(prevSections, sectionId) ==
    [k \in 1..Len(prevSections) |->
        IF prevSections[k].id = sectionId
        THEN [prevSections[k] EXCEPT !.isCompleted = ~prevSections[k].isCompleted]
        ELSE prevSections[k]]

\* The updater passed to setSections (lines 132-136).
CompleteIn(prevSections, sectionId) ==
    [k \in 1..Len(prevSections) |->
        IF prevSections[k].id = sectionId
        THEN [prevSections[k] EXCEPT !.isCompleted = TRUE]
        ELSE prevSections[k]]

handleSectionComplete(sectionId) ==
    /\ sections' = CompleteIn(sections, sectionId)
    /\ toasts' = <<QuizCompletedToast>>
    /\ lastOp' = Call("handleSectionComplete", <<sectionId>>)
    /\ UNCHANGED <<searchTopic, showTypeDialog, showDifficultyDialog,
                   selectedType, selectedDifficulty, courses, selectedVideo,
                   showQuiz, showPythonModal, pending>>

\* handleVideoComplete without its setSelectedVideo("").
handleVideoComplete_KeepsVideo ==
    /\ showQuiz' = TRUE
    /\ toasts' = << >>
    /\ lastOp' = Call("handleVideoComplete", <<selectedVideo>>)
    /\ UNCHANGED <<searchTopic, showTypeDialog, showDifficultyDialog,
                   selectedType, selectedDifficulty, courses, selectedVideo,
                   showPythonModal, sections, pending>>

handleVideoComplete ==
    /\ showQuiz' = TRUE
    /\ selectedVideo' = EmptyString
    /\ toasts' = << >>
    /\ lastOp' = Call("handleVideoComplete", <<selectedVideo>>)
    /\ UNCHANGED <<searchTopic, showTypeDialog, showDifficultyDialog,
                   selectedType, selectedDifficulty, courses, showPythonModal,
                   sections, pending>>

\* A course card's onVideoSelect, which is setSelectedVideo.
setSelectedVideo(videoId) ==
    /\ selectedVideo' = videoId
    /\ toasts' = << >>
    /\ lastOp' = Call("setSelectedVideo", <<videoId>>)
    /\ UNCHANGED <<searchTopic, showTypeDialog, showDifficultyDialog,
                   selectedType, selectedDifficulty, courses, showQuiz,
                   showPythonModal, sections, pending>>

\* The video dialog's onClose.
onVideoClose ==
    /\ selectedVideo' = EmptyString
    /\ toasts' = << >>
    /\ lastOp' = Call("onVideoClose", << >>)
    /\ UNCHANGED <<searchTopic, showTypeDialog, showDifficultyDialog,
                   selectedType, selectedDifficulty, courses, showQuiz,
                   showPythonModal, sections, pending>>

\* The quiz dialog's onClose also closing the video dialog.
onQuizClose_ClearsVideo ==
    /\ showQuiz' = FALSE
    /\ selectedVideo' = EmptyString
    /\ toasts' = << >>
    /\ lastOp' = Call("onQuizClose", << >>)
    /\ UNCHANGED <<searchTopic, showTypeDialog, showDifficultyDialog,
                   selectedType, selectedDifficulty, courses, showPythonModal,
                   sections, pending>>

\* The quiz dialog's onClose.
onQuizClose ==
    /\ showQuiz' = FALSE
    /\ toasts' = << >>
    /\ lastOp' = Call("onQuizClose", << >>)
    /\ UNCHANGED <<searchTopic, showTypeDialog, showDifficultyDialog,
                   selectedType, selectedDifficulty, courses, selectedVideo,
                   showPythonModal, sections, pending>>

\* The quiz dialog's onRetry: setSelectedVideo(selectedVideo), with the
\* selectedVideo of the render the callback was created in.
onQuizRetry ==
    /\ selectedVideo' = selectedVideo
    /\ toasts' = << >>
    /\ lastOp' = Call("onQuizRetry", << >>)
    /\ UNCHANGED <<searchTopic, showTypeDialog, showDifficultyDialog,
                   selectedType, selectedDifficulty, courses, showQuiz,
                   showPythonModal, sections, pending>>

\* The three dialogs' onOpenChange when the user dismisses the dialog.
dismissTypeDialog ==
    /\ showTypeDialog' = FALSE
    /\ toasts' = << >>
    /\ lastOp' = Call("dismissTypeDialog", << >>)
    /\ UNCHANGED <<searchTopic, showDifficultyDialog, selectedType,
                   selectedDifficulty, courses, selectedVideo, showQuiz,
                   showPythonModal, sections, pending>>

dismissDifficultyDialog ==
    /\ showDifficultyDialog' = FALSE
    /\ toasts' = << >>
    /\ lastOp' = Call("dismissDifficultyDialog", << >>)
    /\ UNCHANGED <<searchTopic, showTypeDialog, selectedType,
                   selectedDifficulty, courses, selectedVideo, showQuiz,
                   showPythonModal, sections, pending>>

dismissPythonModal ==
    /\ showPythonModal' = FALSE
    /\ toasts' = << >>
    /\ lastOp' = Call("dismissPythonModal", << >>)
    /\ UNCHANGED <<searchTopic, showTypeDialog, showDifficultyDialog,
                   selectedType, selectedDifficulty, courses, selectedVideo,
                   showQuiz, sections, pending>>

(* ------------------------- the page's events -------------------------- *)

\* A handler runs when the element that carries it is rendered: the buttons
\* of a dialog while its open flag is set, a course card while its course is
\* listed. The search field and button, and the callbacks of the video
\* player and of the quiz, which are always mounted, run in any state. A
\* dialog's onOpenChange runs when the user dismisses the open dialog.

\* The user types one of the texts of T into the search input.
TypeTopic(T) == \E value \in T : setSearchTopic(value)

ClickSearch == handleSearch

\* The two buttons of the type dialog, rendered while it is open.
ClickType(F) == showTypeDialog /\ \E isFree \in F : handleTypeSelection(isFree)

\* The level buttons of the difficulty dialog, rendered while it is open; a
\* click that sends a query waits until fewer than cap queries are awaited.
ClickLevel(L, cap) ==
    /\ showDifficultyDialog
    /\ \E level \in L :
          /\ IsDiversion(searchTopic, level) \/ Len(pending) < cap
          /\ handleDifficultySelection(level)

\* The remote service answers one of the awaited queries.
QueryResolves ==
    \E i \in 1..Len(pending) :
        \E r \in Responses : resumeDifficultySelection(i, r)

\* The button of a section of the curriculum, rendered while it is open.
ClickSection ==
    showPythonModal /\ \E k \in 1..Len(sections) : handleSectionComplete(sections[k].id)

\* A card of the results grid reports its course's video.
ClickVideo == \E k \in 1..Len(courses) : setSelectedVideo(courses[k].video_id)

VideoCompletes == handleVideoComplete

VideoCloses == Truthy(selectedVideo) /\ onVideoClose

QuizCloses == onQuizClose

QuizRetries == onQuizRetry

DismissType == showTypeDialog /\ dismissTypeDialog

DismissDifficulty == showDifficultyDialog /\ dismissDifficultyDialog

DismissPython == showPythonModal /\ dismissPythonModal

(* --------------------------- specifications --------------------------- *)

\* The whole page: every event, over the inputs PageTopics and PageLevels.
Next ==
    \/ TypeTopic(PageTopics)
    \/ ClickSearch
    \/ ClickType({TRUE})
    \/ ClickLevel(PageLevels, MaxInFlight)
    \/ QueryResolves
    \/ ClickSection
    \/ ClickVideo
    \/ VideoCompletes
    \/ VideoCloses
    \/ QuizCloses
    \/ QuizRetries
    \/ DismissType
    \/ DismissDifficulty
    \/ DismissPython

Spec == Init /\ [][Next]_vars

\* The wizard and its query alone, over every topic, tier and level.
WizardNext ==
    \/ TypeTopic(Topics)
    \/ ClickSearch
    \/ ClickType(BOOLEAN)
    \/ ClickLevel(Levels, MaxInFlight)
    \/ QueryResolves
    \/ DismissType
    \/ DismissDifficulty
    \/ DismissPython

SpecWizard == Init /\ [][WizardNext]_vars

\* The section tracker called as a function: the curriculum is opened through
\* the wizard, and handleSectionComplete is called with any id of
\* SectionIdInputs, among them ids of no section.
UnknownSectionIds == {0, 5, 99}

SectionIdInputs == (1..4) \cup UnknownSectionIds

CallSectionComplete == \E id \in SectionIdInputs : handleSectionComplete(id)

TrackerNext ==
    \/ TypeTopic({MixedCasePython})
    \/ ClickSearch
    \/ ClickType({TRUE})
    \/ ClickLevel({BeginnerLevel}, MaxInFlight)
    \/ DismissType
    \/ DismissDifficulty
    \/ DismissPython
    \/ CallSectionComplete

SpecTracker == Init /\ [][TrackerNext]_vars

\* The wizard with up to RaceInFlight queries awaited at once, for one topic
\* that is not diverted.
RaceNext ==
    \/ TypeTopic({OtherTopic})
    \/ ClickSearch
    \/ ClickType({TRUE})
    \/ ClickLevel(PageLevels, RaceInFlight)
    \/ QueryResolves
    \/ DismissType
    \/ DismissDifficulty

SpecRace == Init /\ [][RaceNext]_vars

(* ------------------------------ properties ---------------------------- *)

\* The topic is "python" in some letter casing, letter by letter.
AnyCasePython(t) ==
    /\ Len(t) = 6
    /\ t[1] \in {"p", "P"}
    /\ t[2] \in {"y", "Y"}
    /\ t[3] \in {"t", "T"}
    /\ t[4] \in {"h", "H"}
    /\ t[5] \in {"o", "O"}
    /\ t[6] \in {"n", "N"}

\* The topic is empty or holds white space only, character by character.
BlankTopic(t) == \A k \in 1..Len(t) : t[k] \in {" ", "\t", "\n"}

\* The four levels in lower case, written out.
LowerCasedLevel(level) ==
    CASE level = BeginnerLevel -> <<"b","e","g","i","n","n","e","r">>
      [] level = <<"I","n","t","e","r","m","e","d","i","a","t","e">>
           -> <<"i","n","t","e","r","m","e","d","i","a","t","e">>
      [] level = HardLevel -> <<"h","a","r","d">>
      [] level = <<"E","x","p","e","r","t">> -> <<"e","x","p","e","r","t">>

\* C1: submitSearch with an empty or white-space-only topic does not open the
\* type dialog, emits exactly one error notification, and changes no other
\* wizard state (tier, difficulty, results, dialogs, queries awaited).
C1_BlankTopicRejected ==
    [][(lastOp'.op = "handleSearch" /\ BlankTopic(searchTopic))
        => /\ showTypeDialog' = showTypeDialog
           /\ toasts' = <<EmptyTopicToast>>
           /\ UNCHANGED <<searchTopic, selectedType, selectedDifficulty, courses,
                          showDifficultyDialog, showPythonModal, pending>>]_vars

\* C1 witness: the search was submitted with a white-space-only topic.
C1_Witness ==
    /\ lastOp.op = "handleSearch"
    /\ searchTopic = <<" ", "\t">>
    /\ toasts = <<EmptyTopicToast>>
    /\ ~showTypeDialog

\* C2: with the topic "python" in any casing, choosing exactly "Beginner"
\* opens the curriculum view and sends no query.
C2_DiversionOpensCurriculum ==
    [][(/\ lastOp'.op = "handleDifficultySelection"
        /\ lastOp'.args[1] = BeginnerLevel
        /\ AnyCasePython(searchTopic))
        => /\ showPythonModal' = TRUE
           /\ pending' = pending]_vars

\* C2 witness: Beginner was chosen for the topic "PyTHon".
C2_Witness ==
    /\ lastOp = Call("handleDifficultySelection", <<BeginnerLevel>>)
    /\ searchTopic = MixedCasePython
    /\ showPythonModal
    /\ pending = << >>

\* C3: every other choice of level sends exactly one query, whose is_free is
\* the recorded tier and whose difficulty_level is the level in lower case;
\* the recorded tier changes only by chooseType, to its argument.
C3_QueryCarriesTierAndLevel ==
    [][/\ (/\ lastOp'.op = "handleDifficultySelection"
           /\ ~(AnyCasePython(searchTopic) /\ lastOp'.args[1] = BeginnerLevel))
          => /\ Len(pending') = Len(pending) + 1
             /\ SubSeq(pending', 1, Len(pending)) = pending
             /\ pending'[Len(pending')].is_free = selectedType
             /\ pending'[Len(pending')].difficulty_level
                  = LowerCasedLevel(lastOp'.args[1])
       /\ selectedType' # selectedType
          => /\ lastOp'.op = "handleTypeSelection"
             /\ selectedType' = Some(lastOp'.args[1])]_vars

\* C3 witness: Hard was chosen after the paid tier, and the query is awaited.
C3_Witness ==
    /\ lastOp = Call("handleDifficultySelection", <<HardLevel>>)
    /\ selectedType = Some(FALSE)
    /\ pending = << [is_free |-> Some(FALSE), difficulty_level |-> <<"h","a","r","d">>] >>

\* C4: a query that succeeds with an empty list or with no data empties the
\* results list and fires the "No courses found" notification once; the query
\* is no longer awaited.
C4_NoRecordsEmptiesResults ==
    [][(/\ lastOp'.op = "resumeDifficultySelection"
        /\ ~lastOp'.args[2].rejected
        /\ lastOp'.args[2].error = null
        /\ lastOp'.args[2].data \in {null, Some(<< >>)})
        => /\ courses' = << >>
           /\ toasts' = <<NoCoursesToast>>
           /\ Len(pending') = Len(pending) - 1]_vars

\* C4 witness: a query was answered with an empty list.
C4_Witness ==
    /\ lastOp.op = "resumeDifficultySelection"
    /\ lastOp.args[2].data = Some(<< >>)
    /\ lastOp.args[2].error = null
    /\ courses = << >>
    /\ toasts = <<NoCoursesToast>>

\* C5: a query that fails (an error object, or a rejected promise) leaves the
\* results list as it was and fires the failure notification once; the query
\* is dropped, not sent again.
C5_FailureKeepsResults ==
    [][(/\ lastOp'.op = "resumeDifficultySelection"
        /\ (lastOp'.args[2].rejected \/ lastOp'.args[2].error # null))
        => /\ courses' = courses
           /\ toasts' = <<FetchFailedToast>>
           /\ pending' = RemoveAt(pending, lastOp'.args[1])]_vars

\* C5 witness: a query failed while the results list held courses.
C5_Witness ==
    /\ lastOp.op = "resumeDifficultySelection"
    /\ lastOp.args[2].error # null
    /\ courses # << >>
    /\ toasts = <<FetchFailedToast>>

\* C6: completeSection(id), id in 1..4, leaves that section completed and the
\* other three sections as they were, and calling it again changes nothing.
C6_CompleteSectionSetsOneFlag ==
    [][(lastOp'.op = "handleSectionComplete" /\ lastOp'.args[1] \in 1..4)
        => /\ Len(sections') = Len(sections)
           /\ \A k \in 1..Len(sections) :
                IF sections[k].id = lastOp'.args[1]
                THEN sections'[k] = [sections[k] EXCEPT !.isCompleted = TRUE]
                ELSE sections'[k] = sections[k]
           /\ CompleteIn(sections', lastOp'.args[1]) = sections']_vars

\* C6 witness: section 2 was completed while section 3 already was.
C6_Witness ==
    /\ lastOp = Call("handleSectionComplete", <<2>>)
    /\ sections[2].isCompleted
    /\ sections[3].isCompleted
    /\ ~sections[1].isCompleted
    /\ ~sections[4].isCompleted

\* C7: completeSection with an id of no section leaves the four sections
\* unchanged and fires no notification.
C7_UnknownIdIsSilent ==
    [][(lastOp'.op = "handleSectionComplete" /\ lastOp'.args[1] \in UnknownSectionIds)
        => /\ sections' = sections
           /\ toasts' = << >>]_vars

\* C8: after onVideoComplete, whether or not a video was selected, the quiz
\* is visible and no video is selected.
C8_VideoCompleteShowsQuiz ==
    lastOp.op = "handleVideoComplete" => showQuiz /\ selectedVideo = EmptyString

\* C8 witness: the video player reported the completion of a selected video.
C8_Witness ==
    /\ lastOp.op = "handleVideoComplete"
    /\ Truthy(lastOp.args[1])
    /\ showQuiz
    /\ selectedVideo = EmptyString

\* C9: onQuizRetry right after the completion of a selected video V opens the
\* video dialog again with V.
C9_RetryReopensVideo ==
    [][(/\ lastOp.op = "handleVideoComplete"
        /\ Truthy(lastOp.args[1])
        /\ lastOp'.op = "onQuizRetry")
        => selectedVideo' = lastOp.args[1]]_vars

\* C10: onQuizClose hides the quiz and leaves the selected video, the sections,
\* the results list and the wizard's dialogs as they were.
C10_QuizCloseFrame ==
    [][lastOp'.op = "onQuizClose"
        => /\ showQuiz' = FALSE
           /\ UNCHANGED <<selectedVideo, sections, courses, showTypeDialog,
                          showDifficultyDialog, showPythonModal>>]_vars

\* C10 witness: the quiz was closed with a video selected, a section
\* completed, courses listed and the curriculum open.
C10_Witness ==
    /\ lastOp.op = "onQuizClose"
    /\ ~showQuiz
    /\ Truthy(selectedVideo)
    /\ sections[1].isCompleted
    /\ courses # << >>
    /\ showPythonModal

\* C11: chooseType(isFree) records isFree as the tier, closes the type dialog,
\* opens the difficulty dialog, and emits no notification, for both tiers.
C11_ChooseTypeAdvances ==
    lastOp.op = "handleTypeSelection"
      => /\ selectedType = Some(lastOp.args[1])
         /\ ~showTypeDialog
         /\ showDifficultyDialog
         /\ toasts = << >>

\* C11 witness: the paid tier was chosen after the free tier had been recorded
\* and a query sent with it.
C11_Witness ==
    /\ lastOp = Call("handleTypeSelection", <<FALSE>>)
    /\ selectedType = Some(FALSE)
    /\ pending # << >>
    /\ pending[1].is_free = Some(TRUE)
    /\ showDifficultyDialog
    /\ ~showTypeDialog

\* C12: submitSearch with a topic that is not blank, from any state of the
\* wizard, leaves the type dialog open and the difficulty dialog and the
\* curriculum view closed.
C12_SearchResetsToTypeOpen ==
    (lastOp.op = "handleSearch" /\ ~BlankTopic(searchTopic))
      => /\ showTypeDialog
         /\ ~showDifficultyDialog
         /\ ~showPythonModal

\* C13: the four sections start incomplete, and a section that is completed
\* stays completed whatever the page does next.
C13_CompletionIsMonotonic ==
    /\ \A k \in 1..4 : ~sections[k].isCompleted
    /\ [][\A k \in 1..Len(sections) :
            sections[k].isCompleted
              => \E j \in 1..Len(sections') :
                   sections'[j].id = sections[k].id /\ sections'[j].isCompleted]_vars

\* C13 witness: a query was answered after sections 1 and 3 were completed,
\* and they still are.
C13_Witness ==
    /\ lastOp.op = "resumeDifficultySelection"
    /\ sections[1].isCompleted
    /\ sections[3].isCompleted
    /\ ~sections[2].isCompleted

\* C14: the section list always holds the four sections of the catalog, ids
\* 1, 2, 3, 4 in this order, with the catalog's titles and descriptions.
C14_CatalogIsFixed ==
    /\ Len(sections) = 4
    /\ \A k \in 1..4 :
         /\ sections[k].id = k
         /\ sections[k].title = pythonSections[k].title
         /\ sections[k].description = pythonSections[k].description
    /\ sections[1].title = "Introduction to Python"
    /\ sections[4].title = "Advanced Concepts in Python"

\* C14 witness: the four sections were completed, the second one last.
C14_Witness ==
    /\ lastOp = Call("handleSectionComplete", <<2>>)
    /\ \A k \in 1..4 : sections[k].isCompleted

\* C15: at most one of the type dialog, the difficulty dialog and the
\* curriculum view is open.
C15_DialogsAreExclusive ==
    /\ ~(showTypeDialog /\ showDifficultyDialog)
    /\ ~(showTypeDialog /\ showPythonModal)
    /\ ~(showDifficultyDialog /\ showPythonModal)

\* C16: there is no guard on the order of answers: when a query sent earlier
\* is answered successfully right after a query sent later, the results list
\* becomes the earlier query's answer.
C16_StaleAnswerOverwrites ==
    [][(/\ lastOp.op = "resumeDifficultySelection"
        /\ lastOp'.op = "resumeDifficultySelection"
        /\ lastOp.args[1] > lastOp'.args[1]
        /\ ~lastOp'.args[2].rejected
        /\ lastOp'.args[2].error = null)
        => courses' = (IF lastOp'.args[2].data = null THEN << >>
                       ELSE lastOp'.args[2].data[1])]_vars

\* C16 witness: the query for Beginner, sent before the one for Hard, was
\* answered last, with a course, and the results list holds that course.
C16_Witness ==
    /\ lastOp.op = "resumeDifficultySelection"
    /\ lastOp.args[1] = 1
    /\ lastOp.args[3].difficulty_level = <<"b","e","g","i","n","n","e","r">>
    /\ selectedDifficulty = HardLevel
    /\ pending = << >>
    /\ lastOp.args[2].data = Some(<<CourseRow(1)>>)
    /\ courses = <<CourseRow(1)>>

\* C17: a query answered with one or more records replaces the results list
\* by exactly these records, and no notification fires.
C17_AnswerReplacesResults ==
    (/\ lastOp.op = "resumeDifficultySelection"
     /\ ~lastOp.args[2].rejected
     /\ lastOp.args[2].error = null
     /\ lastOp.args[2].data # null
     /\ Len(lastOp.args[2].data[1]) >= 1)
      => /\ courses = lastOp.args[2].data[1]
         /\ toasts = << >>

\* C17 witness: a query was answered with one course, which is the list.
C17_Witness ==
    /\ lastOp.op = "resumeDifficultySelection"
    /\ lastOp.args[2].data = Some(<<CourseRow(1)>>)
    /\ lastOp.args[2].error = null
    /\ courses = <<CourseRow(1)>>
    /\ toasts = << >>

\* C18: in the diversion (topic python, level Beginner) chooseDifficulty
\* leaves the recorded difficulty, the recorded tier and the results list as
\* they were.
C18_DiversionRecordsNothing ==
    [][(/\ lastOp'.op = "handleDifficultySelection"
        /\ lastOp'.args[1] = BeginnerLevel
        /\ AnyCasePython(searchTopic))
        => UNCHANGED <<selectedDifficulty, selectedType, courses>>]_vars

\* C18 witness: Beginner was chosen for python while the difficulty recorded
\* by an earlier query is Hard and its courses are listed.
C18_Witness ==
    /\ lastOp = Call("handleDifficultySelection", <<BeginnerLevel>>)
    /\ AnyCasePython(searchTopic)
    /\ showPythonModal
    /\ selectedDifficulty = HardLevel
    /\ courses # << >>

\* C19: each step of the wizard is gated behind the previous one. The type
\* dialog opens only by a submitSearch whose topic is not blank; the tier is
\* chosen only in the open type dialog, and only this opens the difficulty
\* dialog; a query is sent or the curriculum opened only by a choice of level
\* in the open difficulty dialog, after a tier was recorded.
C19_StepsAreGated ==
    [][/\ (~showTypeDialog /\ showTypeDialog')
            => (lastOp'.op = "handleSearch" /\ ~BlankTopic(searchTopic))
       /\ (lastOp'.op = "handleTypeSelection" /\ lastOp' # lastOp)
            => showTypeDialog
       /\ (~showDifficultyDialog /\ showDifficultyDialog')
            => lastOp'.op = "handleTypeSelection"
       /\ (Len(pending') > Len(pending) \/ (~showPythonModal /\ showPythonModal'))
            => /\ lastOp'.op = "handleDifficultySelection"
               /\ showDifficultyDialog
               /\ selectedType # null]_vars

\* C19 witness: a query is awaited that was sent through the three steps.
C19_Witness ==
    /\ lastOp.op = "handleDifficultySelection"
    /\ pending # << >>
    /\ selectedType = Some(FALSE)
    /\ ~showDifficultyDialog
    /\ ~showTypeDialog

\* C20: while the difficulty dialog is open the recorded tier is not null, and
\* every query awaited filters is_free on a boolean.
C20_TierIsChosenBeforeLevel ==
    /\ showDifficultyDialog => selectedType \in {Some(TRUE), Some(FALSE)}
    /\ \A i \in 1..Len(pending) : pending[i].is_free \in {Some(TRUE), Some(FALSE)}

\* C20 witness: the difficulty dialog is open again while a query of the paid
\* tier is awaited.
C20_Witness ==
    /\ showDifficultyDialog
    /\ selectedType = Some(TRUE)
    /\ pending # << >>
    /\ pending[1].is_free = Some(FALSE)

====
